---------------------------- MODULE Spec2Model ----------------------------
(***************************************************************************)
(* A model of the morphology-similarity toolkit:                           *)
(*   processing/utils.py       extract_components, crop_image,             *)
(*                             get_inscribed_rect_area                     *)
(*   processing/similarity.py  get_rag and its pickle cache,               *)
(*                             compute_distance, get_distance_matrix       *)
(*   processing/signatures.py  pixel_ratio_sig, shape_ratio_sig            *)
(*   main/processing/signatures.py  the normalized, symmetry and ratio     *)
(*                             signatures                                  *)
(*                                                                         *)
(* Four specifications follow the processing code: SpecUtil (the array     *)
(* utilities and signatures, each called once on an array), SpecVec (the   *)
(* vector steps of                                                         *)
(* compute_distance), Spec (get_rag, get_distance_matrix and the cache,    *)
(* call by call) and SpecWorkers (get_rag statement by statement under     *)
(* several workers).  A fifth, SpecTrajectory, takes main/__init__.py:     *)
(* Trajectory.cache_morphologies over a data directory, call by call.      *)
(*                                                                         *)
(* An image is a sequence of rows, each a sequence of integer             *)
(* intensities; a[r][c] of the source (0-based) is At(a, r, c).            *)
(***************************************************************************)
EXTENDS Integers, Sequences, FiniteSets, TLC

VARIABLES
    image,          \* the array handed to the utility under test
    op,             \* which utility of utils.py ran last ("none" before any)
    args,           \* the keyword arguments of that call
    ret,            \* what the call returned
    cache,          \* ./.cache/RAG : cache location -> file content
    cache_dir,      \* whether the directory ./.cache/RAG exists
    CACHE_ENABLED,  \* the module global of similarity.py
    stored,         \* cache location -> the RAG get_rag last dumped there
    call,           \* the last call of similarity.py and its outcome
    ops,            \* number of steps taken so far
    workers,        \* worker -> where its get_rag call stands, and its outcome
    trajectory      \* a Trajectory: its data directory and its loaded fields

vars == <<image, op, args, ret, cache, cache_dir, CACHE_ENABLED, stored, call,
          ops, workers, trajectory>>
utilVars == <<image, op, args, ret>>
simVars == <<cache, cache_dir, CACHE_ENABLED, stored, call, ops, workers,
            trajectory>>

----------------------------------------------------------------------------
(* Bounds of the model *)

MaxRows == 2
MaxCols == 3
MaxGrey == 2
MaxOps == 2
MaxMorphologies == 2
MaxMaximum == 2
MaxSigFuncs == 2
MaxVecLen == 3
MaxNodes == 4
MaxWorkers == 2
\* the shape reshape_image gives an image, 100 x 400 in the source
ImageRows == 2
ImageCols == 2
\* the timesteps a call may name are 0..MaxTimestep, in lists of MaxBatch
MaxTimestep == 1
MaxBatch == 2

----------------------------------------------------------------------------
(* Arrays *)

Rows(a) == Len(a)
Cols(a) == IF Len(a) = 0 THEN 0 ELSE Len(a[1])
Pixels(a) == (1..Rows(a)) \X (1..Cols(a))
At(a, r, c) == a[r + 1][c + 1]

Max(S) == CHOOSE x \in S : \A y \in S : y <= x
Min(S) == CHOOSE x \in S : \A y \in S : x <= y

RECURSIVE SortedSeq(_)
SortedSeq(S) == IF S = {} THEN <<>> ELSE <<Min(S)>> \o SortedSeq(S \ {Min(S)})

IsBinary(img) == \A p \in Pixels(img) : img[p[1]][p[2]] \in {0, 1}

\* np.unique: the sorted distinct values of an array
unique(a) == SortedSeq({a[p[1]][p[2]] : p \in Pixels(a)})

\* utils.binarize and the inline threshold of extract_components:
\* image > thresh, with thresh2 = 2 * thresh (0.5 is passed as 1)
binarize(img, thresh2) ==
    [r \in 1..Rows(img) |-> [c \in 1..Cols(img) |->
        IF 2 * img[r][c] > thresh2 THEN 1 ELSE 0]]

----------------------------------------------------------------------------
(* skimage.measure.label(image, background): pixels equal to background get *)
(* label 0; the others are grouped into 8-connected regions of equal value, *)
(* numbered 1, 2, ... in raster order of their first pixel.                 *)

Adjacent8(p, q) ==
    /\ p # q
    /\ p[1] - q[1] \in -1..1
    /\ p[2] - q[2] \in -1..1

RECURSIVE Flood(_, _, _)
Flood(img, region, frontier) ==
    IF frontier = {} THEN region
    ELSE LET new == {q \in Pixels(img) \ region :
                        \E p \in frontier :
                            Adjacent8(p, q) /\ img[q[1]][q[2]] = img[p[1]][p[2]]}
         IN  Flood(img, region \cup new, new)

RasterIndex(img, p) == (p[1] - 1) * Cols(img) + p[2]

RECURSIVE LabelRegions(_, _, _)
LabelRegions(img, todo, acc) ==
    IF todo = {} THEN acc
    ELSE LET seed == CHOOSE p \in todo :
                        \A q \in todo : RasterIndex(img, p) <= RasterIndex(img, q)
             reg  == Flood(img, {seed}, {seed})
         IN  LabelRegions(img, todo \ reg, Append(acc, reg))

label(img, background) ==
    LET regs == LabelRegions(img,
                    {p \in Pixels(img) : img[p[1]][p[2]] # background}, <<>>)
    IN  [r \in 1..Rows(img) |-> [c \in 1..Cols(img) |->
            IF img[r][c] = background THEN 0
            ELSE CHOOSE k \in 1..Len(regs) : <<r, c>> \in regs[k]]]

----------------------------------------------------------------------------
(* processing/utils.py *)

\* (labeled_sample == label).astype(np.float64)
LabelMask(labeled, lab) ==
    [r \in 1..Rows(labeled) |-> [c \in 1..Cols(labeled) |->
        IF labeled[r][c] = lab THEN 1 ELSE 0]]

AllZero(a) == \A p \in Pixels(a) : a[p[1]][p[2]] = 0

\* the loop of extract_components over np.unique(labeled_sample)
RECURSIVE CollectComponents(_, _, _, _)
CollectComponents(labeled, labels, allow_blank_images, components) ==
    IF labels = <<>> THEN components
    ELSE LET component == LabelMask(labeled, Head(labels))
         IN  IF ~allow_blank_images /\ AllZero(component)
             THEN CollectComponents(labeled, Tail(labels),
                                    allow_blank_images, components)
             ELSE CollectComponents(labeled, Tail(labels),
                                    allow_blank_images,
                                    Append(components, component))

\* components[1:]
DropFirst(s) == IF s = <<>> THEN <<>> ELSE Tail(s)

\* extract_components dropping the first component only for background > 0
extract_components_bg_positive(img, do_binarize, background, allow_blank_images) ==
    LET im             == IF do_binarize THEN binarize(img, 1) ELSE img
        labeled_sample == label(im, background)
        components     == CollectComponents(labeled_sample,
                              unique(labeled_sample), allow_blank_images, <<>>)
    IN  IF background > 0 THEN DropFirst(components) ELSE components

extract_components(img, do_binarize, background, allow_blank_images) ==
    LET im             == IF do_binarize THEN binarize(img, 1) ELSE img
        labeled_sample == label(im, background)
        components     == CollectComponents(labeled_sample,
                              unique(labeled_sample), allow_blank_images, <<>>)
    IN  IF background >= 0 THEN DropFirst(components) ELSE components

\* the indices a boolean selector keeps, ascending (np.ix_ of a mask)
KeptRows(img, tolerance) ==
    SortedSeq({r \in 1..Rows(img) : \E c \in 1..Cols(img) : img[r][c] > tolerance})
KeptCols(img, tolerance) ==
    SortedSeq({c \in 1..Cols(img) : \E r \in 1..Rows(img) : img[r][c] > tolerance})

crop_image(img, tolerance) ==
    LET rs == KeptRows(img, tolerance)
        cs == KeptCols(img, tolerance)
    IN  [i \in 1..Len(rs) |-> [j \in 1..Len(cs) |-> img[rs[i]][cs[j]]]]


\* the inner loop taking each row's own width, not the least width so far
RECURSIVE ScanHeights_no_min(_, _, _, _, _, _, _)
ScanHeights_no_min(w, r, c, hrc, dh, minw, area_max) ==
    IF dh >= hrc THEN area_max
    ELSE LET m    == w[<<r - dh, c>>]
             area == (dh + 1) * m
         IN  ScanHeights_no_min(w, r, c, hrc, dh + 1, m,
                 IF area > area_max[1]
                 THEN <<area, << <<r - dh, c - m + 1, r, c>> >> >>
                 ELSE area_max)

\* the inner loop of get_inscribed_rect_area: for dh in range(h[r][c])
RECURSIVE ScanHeights(_, _, _, _, _, _, _)
ScanHeights(w, r, c, hrc, dh, minw, area_max) ==
    IF dh >= hrc THEN area_max
    ELSE LET m    == Min({minw, w[<<r - dh, c>>]})
             area == (dh + 1) * m
         IN  ScanHeights(w, r, c, hrc, dh + 1, m,
                 IF area > area_max[1]
                 THEN <<area, << <<r - dh, c - m + 1, r, c>> >> >>
                 ELSE area_max)

\* the two outer loops, in row-major order; st = [w, h, area_max]
RECURSIVE ScanPixels(_, _, _)
ScanPixels(a, k, st) ==
    IF k >= Rows(a) * Cols(a) THEN st.area_max
    ELSE LET r == k \div Cols(a)
             c == k % Cols(a)
         IN  IF At(a, r, c) = 0 THEN ScanPixels(a, k + 1, st)
             ELSE LET hrc == IF r = 0 THEN 1 ELSE st.h[<<r - 1, c>>] + 1
                      wrc == IF c = 0 THEN 1 ELSE st.w[<<r, c - 1>>] + 1
                      h2  == [st.h EXCEPT ![<<r, c>>] = hrc]
                      w2  == [st.w EXCEPT ![<<r, c>>] = wrc]
                  IN  ScanPixels(a, k + 1,
                          [w |-> w2, h |-> h2,
                           area_max |-> ScanHeights(w2, r, c, hrc, 0, wrc,
                                                    st.area_max)])

\* returns <<area, <<top, left, bottom, right>>-list>>, 0-based inclusive
get_inscribed_rect_area(component) ==
    LET zeros == [p \in (0..Rows(component) - 1) \X (0..Cols(component) - 1) |-> 0]
    IN  ScanPixels(component, 0, [w |-> zeros, h |-> zeros, area_max |-> <<0, <<>> >>])

----------------------------------------------------------------------------
(* Floating-point values, kept exact: <<n, d>> with d > 0 in lowest terms is *)
(* n/d; <<1, 0>> and <<-1, 0>> are +inf and -inf, <<0, 0>> is nan.           *)

Abs(n) == IF n < 0 THEN -n ELSE n
Sign(n) == IF n < 0 THEN -1 ELSE IF n > 0 THEN 1 ELSE 0

RECURSIVE GCD(_, _)
GCD(a, b) == IF b = 0 THEN a ELSE GCD(b, a % b)

NaN == <<0, 0>>
Zero == <<0, 1>>

\* numpy's true division of two integers
FloatDiv(n, d) ==
    IF d = 0 THEN <<Sign(n), 0>>
    ELSE LET g == GCD(Abs(n), Abs(d))
         IN  <<Sign(d) * (n \div g), Abs(d) \div g>>

FloatNeg(a) == <<-a[1], a[2]>>
FloatAbs(a) == <<Abs(a[1]), a[2]>>
FloatAdd(a, b) ==
    IF a = NaN \/ b = NaN THEN NaN
    ELSE IF a[2] = 0 /\ b[2] = 0 THEN (IF a = b THEN a ELSE NaN)
    ELSE IF a[2] = 0 THEN a
    ELSE IF b[2] = 0 THEN b
    ELSE FloatDiv(a[1] * b[2] + b[1] * a[2], a[2] * b[2])
FloatSub(a, b) == FloatAdd(a, FloatNeg(b))

----------------------------------------------------------------------------
(* processing/signatures.py *)

Count(a, v) == Cardinality({p \in Pixels(a) : a[p[1]][p[2]] = v})

pixel_ratio_sig(component) == FloatDiv(Count(component, 0), Count(component, 1))

shape_ratio_sig(component) == FloatDiv(Rows(component), Cols(component))

\* eval("processing." + sig_func + "(image)")
Signature(sig_func, component) ==
    CASE sig_func = "pixel_ratio_sig" -> pixel_ratio_sig(component)
      [] sig_func = "shape_ratio_sig" -> shape_ratio_sig(component)

\* eval("processing." + sig_func + "(image)") with the kind of value it
\* gives: the signature functions return one number; eval resolves any
\* function of the package, and crop_image returns an array
Eval(sig_func, img) ==
    IF sig_func = "crop_image"
    THEN [kind |-> "array", value |-> crop_image(img, 0)]
    ELSE [kind |-> "scalar", value |-> Signature(sig_func, img)]

\* the loop of apply_signatures; len() of a number is a TypeError
RECURSIVE ApplyEach(_, _, _, _)
ApplyEach(img, sig_funcs, allow_empty_sig, sigs) ==
    IF sig_funcs = <<>> THEN [raised |-> "none", ret |-> sigs]
    ELSE LET sig == Eval(Head(sig_funcs), img)
         IN  IF ~allow_empty_sig /\ sig.kind = "scalar"
             THEN [raised |-> "TypeError", ret |-> <<>>]
             ELSE IF ~allow_empty_sig /\ ~(Len(sig.value) > 0)
             THEN [raised |-> "AssertionError", ret |-> <<>>]
             ELSE ApplyEach(img, Tail(sig_funcs), allow_empty_sig,
                            Append(sigs, sig.value))

\* the argument sig_funcs: one name given as a string, or a list of names
Str(name) == [str |-> name]
List(names) == [list |-> names]
isinstance_str(x) == DOMAIN x = {"str"}

apply_signatures(img, sig_funcs, allow_empty_sig) ==
    ApplyEach(img,
              IF isinstance_str(sig_funcs) THEN <<sig_funcs.str>>
              ELSE sig_funcs.list,
              allow_empty_sig, <<>>)

----------------------------------------------------------------------------
(* skimage.measure.perimeter(image), neighbourhood 4.  The border pixels   *)
(* are those an erosion by the 4-connected cross removes (pixels outside   *)
(* the array count as 0); each is weighted by the pattern of border pixels *)
(* around it.  The result is <<p, q>>, standing for (p + q * sqrt(2)) / 2. *)

\* STREL_4: the pixels that share an edge
Cross(p, q) == Abs(p[1] - q[1]) + Abs(p[2] - q[2]) = 1

Eroded(a, p) ==
    /\ a[p[1]][p[2]] # 0
    /\ \A q \in {<<p[1] - 1, p[2]>>, <<p[1] + 1, p[2]>>,
                  <<p[1], p[2] - 1>>, <<p[1], p[2] + 1>>} :
          q \in Pixels(a) /\ a[q[1]][q[2]] # 0

Border(a) == {p \in Pixels(a) : a[p[1]][p[2]] # 0 /\ ~Eroded(a, p)}

\* ndi.convolve(border_image, [[10, 2, 10], [2, 1, 2], [10, 2, 10]]) at p
PerimeterCode(a, p) ==
    (IF p \in Border(a) THEN 1 ELSE 0)
    + 2 * Cardinality({q \in Border(a) : Cross(p, q)})
    + 10 * Cardinality({q \in Border(a) : Adjacent8(p, q) /\ ~Cross(p, q)})

\* perimeter_weights, doubled: 1 -> <<2, 0>>, sqrt(2) -> <<0, 2>>,
\* (1 + sqrt(2)) / 2 -> <<1, 1>>
PerimeterWeight(code) ==
    IF code \in {5, 7, 15, 17, 25, 27} THEN <<2, 0>>
    ELSE IF code \in {21, 33} THEN <<0, 2>>
    ELSE IF code \in {13, 23} THEN <<1, 1>>
    ELSE <<0, 0>>

RECURSIVE SumPairs(_)
SumPairs(S) ==
    IF S = {} THEN <<0, 0>>
    ELSE LET x == CHOOSE y \in S : TRUE
             r == SumPairs(S \ {x})
         IN  <<x[2][1] + r[1], x[2][2] + r[2]>>

perimeter(a) ==
    SumPairs({<<p, PerimeterWeight(PerimeterCode(a, p))>> : p \in Pixels(a)})

\* A float of the form (p + q * sqrt(2)) / d, q >= 0, is <<p, q, d>>, in
\* lowest terms with d > 0; <<0, 0, 0>> is nan and <<1, 0, 0>> is +inf.
SurdNaN == <<0, 0, 0>>
SurdOne == <<1, 0, 1>>

\* (p + q * sqrt(2)) / 2 divided by the number n
SurdOver(per, n) ==
    IF n = 0 THEN (IF per = <<0, 0>> THEN SurdNaN ELSE <<1, 0, 0>>)
    ELSE LET g == GCD(GCD(per[1], per[2]), 2 * n)
         IN  <<per[1] \div g, per[2] \div g, (2 * n) \div g>>

SurdIsFinite(s) == s[3] > 0

\* s <= 1.0, false on nan
SurdLeqOne(s) ==
    /\ s[3] > 0
    /\ s[1] <= s[3]
    /\ 2 * s[2] * s[2] <= (s[3] - s[1]) * (s[3] - s[1])

FloatIsFinite(a) == a[2] > 0
FloatLeqOne(a) == a[2] > 0 /\ a[1] <= a[2]

----------------------------------------------------------------------------
(* main/processing/signatures.py.  A call returns [raised, ret]: the       *)
(* exception it ends with ("none" when it returns) and the value returned.  *)

DefaultMaxPeri == 100
DefaultMaxArea == 1000
DefaultMaxLength == 100
DefaultMaxHeight == 400

Returns(value) == [raised |-> "none", ret |-> value]
Raises(exception) == [raised |-> exception, ret |-> NaN]

\* a / b on Python ints
IntDiv(a, b) == IF b = 0 THEN Raises("ZeroDivisionError")
                ELSE Returns(FloatDiv(a, b))

perimeter_sig(component, max_peri) ==
    LET cropped == crop_image(component, 0)
        value   == SurdOver(perimeter(cropped), max_peri)
    IN  Returns(IF SurdLeqOne(value) THEN value ELSE SurdOne)

area_sig(component, max_area) ==
    LET cropped == crop_image(component, 0)
        area    == FloatDiv(Rows(cropped) * Cols(cropped), max_area)
    IN  Returns(IF FloatLeqOne(area) THEN area ELSE <<1, 1>>)

length_sig(component, max_length) ==
    Returns(FloatDiv(Rows(crop_image(component, 0)), max_length))

height_sig(component, max_height) ==
    Returns(FloatDiv(Cols(crop_image(component, 0)), max_height))

y_sym_sig(component) ==
    LET cropped == crop_image(component, 0)
        height  == Rows(cropped)
        width   == Cols(cropped)
        count   == Cardinality(
                       {yx \in (0..height - 1) \X (0..(width \div 2)) :
                           At(cropped, yx[1], yx[2]) =
                               At(cropped, yx[1], width - yx[2] - 1)})
    IN  IF height * width = 0 THEN Raises("ZeroDivisionError")
        ELSE Returns(FloatDiv(2 * count, height * width))

x_sym_sig(component) ==
    LET cropped == crop_image(component, 0)
        height  == Rows(cropped)
        width   == Cols(cropped)
        count   == Cardinality(
                       {yx \in (0..(height \div 2)) \X (0..width - 1) :
                           At(cropped, yx[1], yx[2]) =
                               At(cropped, height - yx[1] - 1, yx[2])})
    IN  IF height * width = 0 THEN Raises("ZeroDivisionError")
        ELSE Returns(FloatDiv(2 * count, height * width))

perimeter_area_ratio_sig(component) ==
    Returns(SurdOver(perimeter(component), Count(component, 1)))

rect_area_ratio_sig(component) ==
    LET cropped_component == crop_image(component, 0)
        circ_area == Rows(cropped_component) * Cols(cropped_component)
        insc_area == get_inscribed_rect_area(cropped_component)[1]
    IN  IntDiv(insc_area, circ_area)

----------------------------------------------------------------------------
(* The graph pipeline behind compute_distance.  A RAG is                    *)
(* [nodes: set of labels, weight: label -> value, edges: set of 2-sets].   *)

Adjacent4(p, q) == Abs(p[1] - q[1]) + Abs(p[2] - q[2]) = 1

Foreground(a) == {p \in Pixels(a) : a[p[1]][p[2]] # 0}

generate_region_adjacency_graph(img, signature) ==
    LET components == extract_components(img, TRUE, 0, FALSE)
        n          == Len(components)
    IN  [nodes  |-> 1..n,
         weight |-> [i \in 1..n |->
                        Signature(signature, crop_image(components[i], 0))],
         edges  |-> {{i, j} : <<i, j>> \in
                        {ij \in (1..n) \X (1..n) :
                            /\ ij[1] < ij[2]
                            /\ \E p \in Foreground(components[ij[1]]),
                                  q \in Foreground(components[ij[2]]) :
                                  Adjacent4(p, q)}}]

Neighbours(rag, u) == {v \in rag.nodes : {u, v} \in rag.edges /\ v # u}

RECURSIVE BreadthFirst(_, _, _)
BreadthFirst(rag, queue, order) ==
    IF queue = <<>> THEN order
    ELSE LET seen == {order[i] : i \in 1..Len(order)}
             new  == SortedSeq(Neighbours(rag, Head(queue)) \ seen)
         IN  BreadthFirst(rag, Tail(queue) \o new, order \o new)

\* generate_bfs_vector leaving out the nodes the root does not reach
generate_bfs_vector_reached_only(rag) ==
    IF rag.nodes = {} THEN <<>>
    ELSE LET root    == Min(rag.nodes)
             reached == BreadthFirst(rag, <<root>>, <<root>>)
         IN  [i \in 1..Len(reached) |-> rag.weight[reached[i]]]

generate_bfs_vector(rag) ==
    IF rag.nodes = {} THEN <<>>
    ELSE LET root    == Min(rag.nodes)
             reached == BreadthFirst(rag, <<root>>, <<root>>)
             rest    == SortedSeq(rag.nodes \
                                  {reached[i] : i \in 1..Len(reached)})
             order   == reached \o rest
         IN  [i \in 1..Len(order) |-> rag.weight[order[i]]]

\* generate_padded_vectors putting the zeros in front
generate_padded_vectors_left(vector_pair) ==
    LET n == Max({Len(vector_pair[1]), Len(vector_pair[2])})
    IN  [k \in 1..2 |-> [i \in 1..n |->
            IF i > n - Len(vector_pair[k])
            THEN vector_pair[k][i - (n - Len(vector_pair[k]))] ELSE Zero]]

generate_padded_vectors(vector_pair) ==
    LET n == Max({Len(vector_pair[1]), Len(vector_pair[2])})
    IN  [k \in 1..2 |-> [i \in 1..n |->
            IF i <= Len(vector_pair[k]) THEN vector_pair[k][i] ELSE Zero]]

RECURSIVE FloatSum(_)
FloatSum(v) == IF v = <<>> THEN Zero ELSE FloatAdd(Head(v), FloatSum(Tail(v)))

\* np.linalg.norm(padded_vectors[0] - padded_vectors[1], 1)
norm_1(u, v) == FloatSum([i \in 1..Len(u) |-> FloatAbs(FloatSub(u[i], v[i]))])

----------------------------------------------------------------------------
(* pickle: a graph is written node by node in ascending label order, each  *)
(* with its weight and its sorted neighbours, and closed by the STOP       *)
(* opcode ".".  A file that lost its tail cannot be loaded.                *)

pickle_dumps(rag) ==
    LET labels == SortedSeq(rag.nodes)
    IN  <<[i \in 1..Len(labels) |->
              <<labels[i], rag.weight[labels[i]],
                SortedSeq(Neighbours(rag, labels[i]))>>],
          ".">>

CanLoad(bytes) == Len(bytes) = 2 /\ bytes[2] = "."

pickle_loads(bytes) ==
    LET entries == bytes[1]
        idx(l)  == CHOOSE i \in 1..Len(entries) : entries[i][1] = l
        labels  == {entries[i][1] : i \in 1..Len(entries)}
    IN  [nodes  |-> labels,
         weight |-> [l \in labels |-> entries[idx(l)][2]],
         edges  |-> UNION {{{entries[i][1], entries[i][3][k]} :
                               k \in 1..Len(entries[i][3])} :
                           i \in 1..Len(entries)}]

Truncated(bytes) == SubSeq(bytes, 1, Len(bytes) - 1)

----------------------------------------------------------------------------
(* processing/similarity.py.  The world w a call runs in is                *)
(* [cache, cache_dir, CACHE_ENABLED]; a call returns its outcome together  *)
(* with the cache it leaves behind.                                        *)

\* a cache key that Python takes as false: None or ""
NoKey == ""
Truthy(cache_key) == cache_key # NoKey

\* f"./.cache/RAG/{cache_key}_{signature}"
cache_location(cache_key, signature) == cache_key \o "_" \o signature

NoRag == [nodes |-> {}, weight |-> <<>>, edges |-> {}]

\* get_rag dumping to a location that leaves the signature out
get_rag_dump_by_key(w, img, signature, cache_key) ==
    LET loc == cache_location(cache_key, signature)
        fresh == generate_region_adjacency_graph(img, signature)
    IN  IF /\ w.CACHE_ENABLED /\ Truthy(cache_key)
           /\ w.cache_dir /\ loc \in DOMAIN w.cache
        THEN \* open() succeeded: pickle.load decides
             IF CanLoad(w.cache[loc])
             THEN [cache |-> w.cache, raised |-> "none",
                   ret |-> pickle_loads(w.cache[loc]),
                   built |-> FALSE, wrote |-> FALSE]
             ELSE [cache |-> w.cache, raised |-> "UnpicklingError",
                   ret |-> NoRag, built |-> FALSE, wrote |-> FALSE]
        ELSE \* except IOError
             IF ~Truthy(cache_key)
             THEN [cache |-> w.cache, raised |-> "none", ret |-> fresh,
                   built |-> TRUE, wrote |-> FALSE]
             ELSE IF w.cache_dir
             THEN [cache |-> (cache_key :> pickle_dumps(fresh)) @@ w.cache,
                   raised |-> "none", ret |-> fresh,
                   built |-> TRUE, wrote |-> TRUE]
             ELSE [cache |-> w.cache, raised |-> "FileNotFoundError",
                   ret |-> NoRag, built |-> TRUE, wrote |-> FALSE]

\* get_rag that returns the freshly built RAG without caching it
get_rag_no_dump(w, img, signature, cache_key) ==
    LET loc == cache_location(cache_key, signature)
        fresh == generate_region_adjacency_graph(img, signature)
    IN  IF /\ w.CACHE_ENABLED /\ Truthy(cache_key)
           /\ w.cache_dir /\ loc \in DOMAIN w.cache
        THEN IF CanLoad(w.cache[loc])
             THEN [cache |-> w.cache, raised |-> "none",
                   ret |-> pickle_loads(w.cache[loc]),
                   built |-> FALSE, wrote |-> FALSE]
             ELSE [cache |-> w.cache, raised |-> "UnpicklingError",
                   ret |-> NoRag, built |-> FALSE, wrote |-> FALSE]
        ELSE [cache |-> w.cache, raised |-> "none", ret |-> fresh,
              built |-> TRUE, wrote |-> FALSE]

get_rag(w, img, signature, cache_key) ==
    LET loc == cache_location(cache_key, signature)
        fresh == generate_region_adjacency_graph(img, signature)
    IN  IF /\ w.CACHE_ENABLED /\ Truthy(cache_key)
           /\ w.cache_dir /\ loc \in DOMAIN w.cache
        THEN \* open() succeeded: pickle.load decides
             IF CanLoad(w.cache[loc])
             THEN [cache |-> w.cache, raised |-> "none",
                   ret |-> pickle_loads(w.cache[loc]),
                   built |-> FALSE, wrote |-> FALSE]
             ELSE [cache |-> w.cache, raised |-> "UnpicklingError",
                   ret |-> NoRag, built |-> FALSE, wrote |-> FALSE]
        ELSE \* except IOError
             IF ~Truthy(cache_key)
             THEN [cache |-> w.cache, raised |-> "none", ret |-> fresh,
                   built |-> TRUE, wrote |-> FALSE]
             ELSE IF w.cache_dir
             THEN [cache |-> (loc :> pickle_dumps(fresh)) @@ w.cache,
                   raised |-> "none", ret |-> fresh,
                   built |-> TRUE, wrote |-> TRUE]
             ELSE [cache |-> w.cache, raised |-> "FileNotFoundError",
                   ret |-> NoRag, built |-> TRUE, wrote |-> FALSE]

\* the distance of two vectors as the sum of their differences, signs kept
vector_distance_signed(image_1_rag, image_2_rag) ==
    LET padded_vectors == generate_padded_vectors(
                              <<generate_bfs_vector(image_1_rag),
                                generate_bfs_vector(image_2_rag)>>)
    IN  FloatSum([i \in 1..Len(padded_vectors[1]) |->
                     FloatSub(padded_vectors[1][i], padded_vectors[2][i])])

\* lines 116-125 of compute_distance: vectors, padding, norm
vector_distance(image_1_rag, image_2_rag) ==
    LET padded_vectors == generate_padded_vectors(
                              <<generate_bfs_vector(image_1_rag),
                                generate_bfs_vector(image_2_rag)>>)
    IN  norm_1(padded_vectors[1], padded_vectors[2])

\* what compute_distance returns once both get_rag calls are made (r1, r2
\* their outcomes): [cache, raised, is_none, ret, log]; log lists the calls
DistanceOutcome(key_1, key_2, r1, r2) ==
    LET e1 == [cache_key |-> key_1, built |-> r1.built, wrote |-> r1.wrote,
               raised |-> r1.raised, ret |-> r1.ret]
        e2 == [cache_key |-> key_2, built |-> r2.built, wrote |-> r2.wrote,
               raised |-> r2.raised, ret |-> r2.ret]
    IN  IF r1.raised # "none"
        THEN [cache |-> r1.cache, raised |-> r1.raised,
              is_none |-> FALSE, ret |-> NaN, log |-> <<e1>>]
        ELSE IF r2.raised # "none"
        THEN [cache |-> r2.cache, raised |-> r2.raised,
              is_none |-> FALSE, ret |-> NaN, log |-> <<e1, e2>>]
        ELSE [cache |-> r2.cache, raised |-> "none", is_none |-> FALSE,
              ret |-> vector_distance(r1.ret, r2.ret), log |-> <<e1, e2>>]

compute_distance(w, image_1, image_2, macro, signature, cache_keys) ==
    IF macro # "BFS"
    THEN [cache |-> w.cache, raised |-> "none", is_none |-> TRUE,
          ret |-> NaN, log |-> <<>>]
    ELSE LET key_1 == IF cache_keys # <<>> THEN cache_keys[1] ELSE NoKey
             key_2 == IF cache_keys # <<>> THEN cache_keys[2] ELSE NoKey
         IN  CHOOSE out \in
                 {DistanceOutcome(key_1, key_2, r[1], r[2]) :
                     r \in UNION {
                         {<<r1, r2>> :
                             r2 \in {IF r1.raised # "none" THEN r1
                                     ELSE get_rag([w EXCEPT !.cache = r1.cache],
                                                  image_2, signature, key_2)}} :
                         r1 \in {get_rag(w, image_1, signature, key_1)}}} : TRUE

\* file_parents[0].name + "_" + morphology_file.stem
get_cache_key(morphology_file) ==
    morphology_file.trajectory \o "_" \o morphology_file.stem

\* the morphology files on disk: <source_dir>/<trajectory>/<stem><suffix>
File(d, t, s, x) == [source_dir |-> d, trajectory |-> t, stem |-> s, suffix |-> x]

Files == {File("data", "t", "1", ".png"),
          File("data", "t", "1", ".jpg"),
          File("data", "t", "2", ".png")}

\* rgb2gray(io.imread(morphology_file)): the grey levels each file holds
imread_gray(morphology_file) ==
    CASE morphology_file = File("data", "t", "1", ".png") -> << <<1, 0, 1>> >>
      [] morphology_file = File("data", "t", "1", ".jpg") -> << <<1, 1, 0>> >>
      [] morphology_file = File("data", "t", "2", ".png") -> << <<1, 0>>, <<0, 1>> >>

\* np.empty: a cell holds whatever the memory held until it is assigned
Unset == <<0, -1>>

\* one pass of the loop body: cell (m1, m2) of the matrix, given the outcome
\* d of compute_distance; st = [cache, raised, matrix, reads, log]
FillCell(st, m1, m2, d) ==
    [cache  |-> d.cache,
     raised |-> d.raised,
     matrix |-> IF d.raised # "none" THEN st.matrix
                ELSE [st.matrix EXCEPT ![m1][m2] =
                         IF d.is_none THEN NaN ELSE d.ret],
     reads  |-> st.reads + 2,
     log    |-> st.log \o d.log]

\* the double loop of get_distance_matrix from cell k = (m1_idx, m2_idx) on
RECURSIVE FillMatrix(_, _, _, _, _, _)
FillMatrix(w, st, morphologies, macro, signature, k) ==
    LET n  == Len(morphologies)
        m1 == (k \div n) + 1
        m2 == (k % n) + 1
    IN  IF k >= n * n \/ st.raised # "none" THEN st
        ELSE CHOOSE end \in
                 {FillMatrix(w, st2, morphologies, macro, signature, k + 1) :
                     st2 \in {FillCell(st, m1, m2, d) :
                         d \in {compute_distance(
                                   [w EXCEPT !.cache = st.cache],
                                   imread_gray(morphologies[m1]),
                                   imread_gray(morphologies[m2]),
                                   macro, signature,
                                   <<get_cache_key(morphologies[m1]),
                                     get_cache_key(morphologies[m2])>>)}}} : TRUE

get_distance_matrix(w, morphologies, macro, signature) ==
    LET morphology_count == Len(morphologies)
    IN  FillMatrix(w,
            [cache  |-> w.cache,
             raised |-> "none",
             matrix |-> [i \in 1..morphology_count |->
                            [j \in 1..morphology_count |-> Unset]],
             reads  |-> 0,
             log    |-> <<>>],
            morphologies, macro, signature, 0)

----------------------------------------------------------------------------
(* main/visualization/widgets.py and main/__init__.py.  The data directory *)
(* of a trajectory maps the name of each timestep directory to its files   *)
(* image.npy and components.npy, <<>> for a missing file and <<x>> for a   *)
(* file holding x.  A str of decimal digits is the sequence of its digits. *)
(* br, chi and version are fixed, br and chi floats, so that Morphology    *)
(* and Trajectory spell the same path.                                     *)

\* the elements of an array in row-major order
RECURSIVE Flat(_)
Flat(a) == IF a = <<>> THEN <<>> ELSE Head(a) \o Flat(Tail(a))

\* ndarray.reshape((rows, cols)), which raises ValueError when sizes differ
CanReshape(a, rows, cols) == Len(Flat(a)) = rows * cols
reshape(a, rows, cols) ==
    [r \in 1..rows |-> [c \in 1..cols |-> Flat(a)[(r - 1) * cols + c]]]

\* image[:n]
FirstRows(a, n) == SubSeq(a, 1, IF n < Len(a) THEN n ELSE Len(a))

reshape_image(img) ==
    IF CanReshape(img, ImageRows, ImageCols)
    THEN Returns(reshape(img, ImageRows, ImageCols))
    ELSE IF CanReshape(img, ImageRows, 2 * ImageCols)
         THEN Returns(FirstRows(reshape(img, ImageRows, 2 * ImageCols),
                                ImageCols))
         ELSE Raises("ValueError")

\* a timestep argument: an int, or a str (Str)
Num(n) == [int |-> n]

RECURSIVE Digits(_)
Digits(n) == IF n < 10 THEN <<n>> ELSE Append(Digits(n \div 10), n % 10)

\* f'{n:03}'
Format03(n) ==
    LET d == Digits(n)
    IN  IF Len(d) >= 3 THEN d ELSE [i \in 1..(3 - Len(d)) |-> 0] \o d

\* int(s) on a str of digits
RECURSIVE ParseInt(_)
ParseInt(s) ==
    IF s = <<>> THEN 0
    ELSE 10 * ParseInt(SubSeq(s, 1, Len(s) - 1)) + s[Len(s)]

\* int(timestep)
int(timestep) ==
    IF isinstance_str(timestep) THEN ParseInt(timestep.str) ELSE timestep.int

\* str comparison, character by character
RECURSIVE StrLeq(_, _)
StrLeq(s, t) ==
    IF s = <<>> THEN TRUE
    ELSE IF t = <<>> THEN FALSE
    ELSE IF Head(s) # Head(t) THEN Head(s) < Head(t)
    ELSE StrLeq(Tail(s), Tail(t))

\* sorted(os.listdir(...))
RECURSIVE sorted(_)
sorted(names) ==
    IF names = {} THEN <<>>
    ELSE LET least == CHOOSE x \in names : \A y \in names : StrLeq(x, y)
         IN  <<least>> \o sorted(names \ {least})

EmptyDir == [image |-> <<>>, components |-> <<>>]

\* os.makedirs(f'{data_path}/signatures', exist_ok=True)
makedirs(disk, data_path) ==
    IF data_path \in DOMAIN disk THEN disk
    ELSE [n \in DOMAIN disk \cup {data_path} |->
            IF n = data_path THEN EmptyDir ELSE disk[n]]

\* np.save(f'{data_path}/<file>', value)
Save(disk, data_path, file, value) ==
    [disk EXCEPT ![data_path] =
        IF file = "image" THEN [@ EXCEPT !.image = <<value>>]
        ELSE [@ EXCEPT !.components = <<value>>]]

\* Morphology.__init__: the directory is made, and the image and the
\* components are loaded when their files exist; self.image is <<>> for
\* None
Morphology(disk, timestep) ==
    LET data_path == Format03(int(timestep))
        made      == makedirs(disk, data_path)
    IN  [disk |-> made,
         self |-> [timestep   |-> int(timestep),
                   data_path  |-> data_path,
                   image      |-> made[data_path].image,
                   components |-> made[data_path].components]]

\* Morphology.cache_image: the file is written, self.image is not touched
cache_image(disk, self, img) ==
    LET reshaped == reshape_image(img)
    IN  IF reshaped.raised # "none" THEN [raised |-> reshaped.raised, disk |-> disk]
        ELSE [raised |-> "none",
              disk   |-> Save(disk, self.data_path, "image", reshaped.ret)]

\* Morphology.cache_components: the image is loaded only if self.image is
\* None
cache_components(disk, self) ==
    LET img == IF self.image = <<>> THEN disk[self.data_path].image[1]
               ELSE self.image[1]
    IN  Save(disk, self.data_path, "components",
             extract_components(img, TRUE, 1, FALSE))

\* Trajectory.load_morphologies
load_morphologies(disk) ==
    LET timesteps == sorted(DOMAIN disk)
    IN  [disk         |-> disk,
         timesteps    |-> [i \in 1..Len(timesteps) |-> Str(timesteps[i])],
         morphologies |-> [i \in 1..Len(timesteps) |->
                              Morphology(disk, Str(timesteps[i])).self]]

\* Trajectory.__init__ on a data directory that is empty
NoTrajectory == load_morphologies(<<>>)

\* timestep in self.timesteps
InTimesteps(timestep, timesteps) ==
    \E i \in 1..Len(timesteps) :
        /\ isinstance_str(timestep) = isinstance_str(timesteps[i])
        /\ timestep = timesteps[i]

\* the argument timesteps: None, or a list (List)
None == [none |-> TRUE]
is_None(x) == DOMAIN x = {"none"}

\* zip(images, timesteps)
zip(xs, ys) ==
    [i \in 1..(IF Len(xs) < Len(ys) THEN Len(xs) ELSE Len(ys)) |->
        <<xs[i], ys[i]>>]

\* range(n)
range(n) == [i \in 1..n |-> Num(i - 1)]

\* the loop of cache_morphologies; an exception ends it where it stands
RECURSIVE CacheEach(_, _, _, _, _)
CacheEach(disk, self_timesteps, pairs, with_components, replace) ==
    IF pairs = <<>> THEN [raised |-> "none", disk |-> disk]
    ELSE LET img      == Head(pairs)[1]
             timestep == Head(pairs)[2]
         IN  IF replace /\ InTimesteps(timestep, self_timesteps)
             THEN CacheEach(disk, self_timesteps, Tail(pairs),
                            with_components, replace)
             ELSE LET morph == Morphology(disk, timestep)
                      saved == cache_image(morph.disk, morph.self, img)
                  IN  IF saved.raised # "none" THEN saved
                      ELSE CacheEach(
                               IF with_components
                               THEN cache_components(saved.disk, morph.self)
                               ELSE saved.disk,
                               self_timesteps, Tail(pairs),
                               with_components, replace)

\* Trajectory.cache_morphologies(images, timesteps, cache_components,
\* replace) on the trajectory traj: the trajectory it leaves, and the
\* exception it ends with
cache_morphologies(traj, images, timesteps, with_components, replace) ==
    LET given == IF is_None(timesteps) THEN range(Len(images))
                 ELSE timesteps.list
        done  == CacheEach(traj.disk, traj.timesteps, zip(images, given),
                           with_components, replace)
    IN  IF done.raised # "none"
        THEN [raised |-> done.raised,
              traj   |-> [traj EXCEPT !.disk = done.disk]]
        ELSE [raised |-> "none", traj |-> load_morphologies(done.disk)]

----------------------------------------------------------------------------
(* The arrays the utilities are exercised on *)

Masks ==
    UNION {[1..r -> [1..c -> {0, 1}]] : <<r, c>> \in (1..MaxRows) \X (1..MaxCols)}

Scale(m, g) == [r \in 1..Rows(m) |-> [c \in 1..Cols(m) |-> g * m[r][c]]]

\* a rows x cols array that is 1 exactly on the squares of side 3 whose
\* top-left corners (1-based) are in corners
SquaresImage(rows, cols, corners) ==
    [r \in 1..rows |-> [c \in 1..cols |->
        IF \E k \in corners : r - k[1] \in 0..2 /\ c - k[2] \in 0..2
        THEN 1 ELSE 0]]

SquaresOverlap(k1, k2) == k1[1] - k2[1] \in -2..2 /\ k1[2] - k2[2] \in -2..2
SquaresTouch(k1, k2)   == k1[1] - k2[1] \in -3..3 /\ k1[2] - k2[2] \in -3..3

SquareCorners == (1..4) \X (1..5)

TwoSquareImages ==
    {SquaresImage(6, 7, {k1, k2}) :
        <<k1, k2>> \in {kk \in SquareCorners \X SquareCorners :
                            ~SquaresOverlap(kk[1], kk[2])}}

FullSquare4 == [r \in 1..4 |-> [c \in 1..4 |-> 1]]

Images ==
    {Scale(m, g) : <<m, g>> \in Masks \X (1..MaxGrey)}
        \cup TwoSquareImages \cup {FullSquare4}

Backgrounds == -1..MaxGrey
Tolerances == 0..(MaxGrey - 1)

NoCall == [fn |-> "none"]

NoArgs == [binarize |-> TRUE, background |-> -1,
           allow_blank_images |-> FALSE, tolerance |-> 0]

\* the lists of at most n distinct elements of S
RECURSIVE ListsUpTo(_, _)
ListsUpTo(S, n) ==
    IF n = 0 THEN {<<>>}
    ELSE ListsUpTo(S, n - 1) \cup
         {Append(q, x) : <<q, x>> \in
             {t \in ListsUpTo(S, n - 1) \X S :
                 /\ Len(t[1]) = n - 1
                 /\ \A i \in 1..Len(t[1]) : t[1][i] # t[2]}}

----------------------------------------------------------------------------
(* The calls of utils.py, each on the array chosen initially *)

ExtractComponents ==
    /\ op = "none"
    /\ \E b \in BOOLEAN, bg \in Backgrounds, ab \in BOOLEAN :
          /\ args' = [NoArgs EXCEPT !.binarize = b, !.background = bg,
                                    !.allow_blank_images = ab]
          /\ ret' = extract_components(image, b, bg, ab)
    /\ op' = "extract_components"
    /\ UNCHANGED <<image, simVars>>

CropImage ==
    /\ op = "none"
    /\ \E tol \in Tolerances :
          /\ args' = [NoArgs EXCEPT !.tolerance = tol]
          /\ ret' = crop_image(image, tol)
    /\ op' = "crop_image"
    /\ UNCHANGED <<image, simVars>>

GetInscribedRectArea ==
    /\ op = "none"
    /\ args' = NoArgs
    /\ ret' = get_inscribed_rect_area(image)
    /\ op' = "get_inscribed_rect_area"
    /\ UNCHANGED <<image, simVars>>

InitUtil ==
    /\ image \in Images
    /\ op = "none"
    /\ args = NoArgs
    /\ ret = <<>>
    /\ cache = <<>>
    /\ cache_dir = TRUE
    /\ CACHE_ENABLED = TRUE
    /\ stored = <<>>
    /\ call = NoCall
    /\ ops = 0
    /\ workers = <<>>
    /\ trajectory = NoTrajectory

\* utils.apply_to_image(image, func, crop): func on every component of
\* extract_components(image), cropped first when crop is set
apply_to_image(img, func, crop) ==
    LET components == extract_components(img, TRUE, -1, FALSE)
    IN  [i \in 1..Len(components) |->
            Signature(func, IF crop THEN crop_image(components[i], 0)
                            ELSE components[i])]

ApplyToImage ==
    /\ op = "none"
    /\ \E func \in {"pixel_ratio_sig", "shape_ratio_sig"}, crop \in BOOLEAN :
          /\ args' = [func |-> func, crop |-> crop]
          /\ ret' = apply_to_image(image, func, crop)
    /\ op' = "apply_to_image"
    /\ UNCHANGED <<image, simVars>>

\* The signature functions of main/processing/signatures.py, each called on
\* the array chosen initially when that array is a binary mask, as the
\* components are.  A maximum is a small positive number or the default.
Maxima(default) == (1..MaxMaximum) \cup {default}

PerimeterSig ==
    /\ op = "none"
    /\ IsBinary(image)
    /\ \E max_peri \in Maxima(DefaultMaxPeri) :
          /\ args' = [maximum |-> max_peri]
          /\ ret' = perimeter_sig(image, max_peri)
    /\ op' = "perimeter_sig"
    /\ UNCHANGED <<image, simVars>>

AreaSig ==
    /\ op = "none"
    /\ IsBinary(image)
    /\ \E max_area \in Maxima(DefaultMaxArea) :
          /\ args' = [maximum |-> max_area]
          /\ ret' = area_sig(image, max_area)
    /\ op' = "area_sig"
    /\ UNCHANGED <<image, simVars>>

LengthSig ==
    /\ op = "none"
    /\ IsBinary(image)
    /\ \E max_length \in Maxima(DefaultMaxLength) :
          /\ args' = [maximum |-> max_length]
          /\ ret' = length_sig(image, max_length)
    /\ op' = "length_sig"
    /\ UNCHANGED <<image, simVars>>

HeightSig ==
    /\ op = "none"
    /\ IsBinary(image)
    /\ \E max_height \in Maxima(DefaultMaxHeight) :
          /\ args' = [maximum |-> max_height]
          /\ ret' = height_sig(image, max_height)
    /\ op' = "height_sig"
    /\ UNCHANGED <<image, simVars>>

YSymSig ==
    /\ op = "none"
    /\ IsBinary(image)
    /\ args' = NoArgs
    /\ ret' = y_sym_sig(image)
    /\ op' = "y_sym_sig"
    /\ UNCHANGED <<image, simVars>>

XSymSig ==
    /\ op = "none"
    /\ IsBinary(image)
    /\ args' = NoArgs
    /\ ret' = x_sym_sig(image)
    /\ op' = "x_sym_sig"
    /\ UNCHANGED <<image, simVars>>

\* The ratio signatures, called on the array chosen initially or on what
\* crop_image makes of it
Component(cropped) == IF cropped THEN crop_image(image, 0) ELSE image

PixelRatioSig ==
    /\ op = "none"
    /\ IsBinary(image)
    /\ \E cropped \in BOOLEAN :
          /\ args' = [cropped |-> cropped]
          /\ ret' = Returns(pixel_ratio_sig(Component(cropped)))
    /\ op' = "pixel_ratio_sig"
    /\ UNCHANGED <<image, simVars>>

PerimeterAreaRatioSig ==
    /\ op = "none"
    /\ IsBinary(image)
    /\ \E cropped \in BOOLEAN :
          /\ args' = [cropped |-> cropped]
          /\ ret' = perimeter_area_ratio_sig(Component(cropped))
    /\ op' = "perimeter_area_ratio_sig"
    /\ UNCHANGED <<image, simVars>>

RectAreaRatioSig ==
    /\ op = "none"
    /\ IsBinary(image)
    /\ \E cropped \in BOOLEAN :
          /\ args' = [cropped |-> cropped]
          /\ ret' = rect_area_ratio_sig(Component(cropped))
    /\ op' = "rect_area_ratio_sig"
    /\ UNCHANGED <<image, simVars>>

\* apply_signatures on lists of signature names, on one name given as a
\* string, and on the array-valued crop_image
SigFuncArgs ==
    {List(l) : l \in ListsUpTo({"pixel_ratio_sig", "shape_ratio_sig"},
                               MaxSigFuncs)}
        \cup {Str(f) : f \in {"pixel_ratio_sig", "shape_ratio_sig"}}
        \cup {List(<<"crop_image">>)}

ApplySignatures ==
    /\ op = "none"
    /\ \E sig_funcs \in SigFuncArgs, allow_empty_sig \in BOOLEAN :
          /\ args' = [sig_funcs |-> sig_funcs,
                      allow_empty_sig |-> allow_empty_sig]
          /\ ret' = apply_signatures(image, sig_funcs, allow_empty_sig)
    /\ op' = "apply_signatures"
    /\ UNCHANGED <<image, simVars>>

NextUtil ==
    \/ ExtractComponents
    \/ CropImage
    \/ GetInscribedRectArea
    \/ ApplyToImage
    \/ PerimeterSig
    \/ AreaSig
    \/ LengthSig
    \/ HeightSig
    \/ YSymSig
    \/ XSymSig
    \/ PixelRatioSig
    \/ PerimeterAreaRatioSig
    \/ RectAreaRatioSig
    \/ ApplySignatures

SpecUtil == InitUtil /\ [][NextUtil]_vars

----------------------------------------------------------------------------
(* The vector steps of compute_distance, on vectors and graphs of their own *)

\* the vector of floats holding the integers of s
Vec(s) == [i \in 1..Len(s) |-> <<s[i], 1>>]

Vectors ==
    UNION {[1..n -> {<<0, 1>>, <<1, 1>>, <<2, 1>>}] : n \in 0..MaxVecLen}
        \cup {Vec(<<1, 2>>), Vec(<<1, 2, 3, 4>>)}

\* the graphs on the labels 1..n, every node with a weight of its own or
\* all with the same weight
Rags ==
    UNION {{[nodes  |-> 1..n,
             weight |-> [l \in 1..n |-> IF distinct THEN FloatDiv(l, 2)
                                        ELSE <<1, 1>>],
             edges  |-> E] :
               E \in SUBSET {{i, j} : <<i, j>> \in
                                {ij \in (1..n) \X (1..n) : ij[1] < ij[2]}},
               distinct \in BOOLEAN} :
           n \in 0..MaxNodes}

\* lines 120-125 of compute_distance: pad the pair, take the norm
GeneratePaddedVectors ==
    /\ op = "vec"
    /\ \E u \in Vectors, v \in Vectors :
          \E padded_vectors \in {generate_padded_vectors(<<u, v>>)} :
              /\ args' = [vector_pair |-> <<u, v>>]
              /\ ret' = [padded_vectors |-> padded_vectors,
                         distance |-> norm_1(padded_vectors[1],
                                             padded_vectors[2])]
    /\ op' = "generate_padded_vectors"
    /\ UNCHANGED <<image, simVars>>

\* lines 116-118 of compute_distance: the vector of a graph
GenerateBfsVector ==
    /\ op = "vec"
    /\ \E rag \in Rags :
          /\ args' = [rag |-> rag]
          /\ ret' = generate_bfs_vector(rag)
    /\ op' = "generate_bfs_vector"
    /\ UNCHANGED <<image, simVars>>

InitVec ==
    /\ image = <<>>
    /\ op = "vec"
    /\ args = NoArgs
    /\ ret = <<>>
    /\ cache = <<>>
    /\ cache_dir = TRUE
    /\ CACHE_ENABLED = TRUE
    /\ stored = <<>>
    /\ call = NoCall
    /\ ops = 0
    /\ workers = <<>>
    /\ trajectory = NoTrajectory

NextVec == GeneratePaddedVectors \/ GenerateBfsVector

SpecVec == InitVec /\ [][NextVec]_vars

----------------------------------------------------------------------------
(* The calls of similarity.py and what the environment does to the cache *)

Signatures == {"pixel_ratio_sig", "shape_ratio_sig"}
Macros == {"BFS", "DFS"}
CacheKeys == {NoKey} \cup {get_cache_key(f) : f \in Files}
SimImages == {imread_gray(f) : f \in Files}

World == [cache |-> cache, cache_dir |-> cache_dir, CACHE_ENABLED |-> CACHE_ENABLED]

Without(f, x) == [y \in DOMAIN f \ {x} |-> f[y]]

GetRag ==
    /\ op = "sim"
    /\ ops < MaxOps
    /\ \E img \in SimImages, signature \in Signatures, cache_key \in CacheKeys :
          \E res \in {get_rag(World, img, signature, cache_key)} :
          LET loc == cache_location(cache_key, signature)
          IN  /\ cache' = res.cache
              /\ stored' = IF res.wrote THEN (loc :> res.ret) @@ stored
                           ELSE stored
              /\ call' = [fn |-> "get_rag", image |-> img,
                          signature |-> signature, cache_key |-> cache_key,
                          before |-> World, stored_before |-> stored,
                          raised |-> res.raised, ret |-> res.ret,
                          built |-> res.built, wrote |-> res.wrote]
    /\ ops' = ops + 1
    /\ UNCHANGED <<utilVars, trajectory, workers, cache_dir, CACHE_ENABLED>>

GetDistanceMatrix ==
    /\ op = "sim"
    /\ ops < MaxOps
    /\ \E morphologies \in ListsUpTo(Files, MaxMorphologies),
          macro \in Macros, signature \in Signatures :
          \E res \in {get_distance_matrix(World, morphologies, macro, signature)} :
          LET wrote(l) == {i \in 1..Len(res.log) :
                              /\ res.log[i].wrote
                              /\ cache_location(res.log[i].cache_key,
                                                signature) = l}
              locs == {cache_location(res.log[i].cache_key, signature) :
                          i \in {j \in 1..Len(res.log) : res.log[j].wrote}}
          IN  /\ cache' = res.cache
              /\ stored' = [l \in locs |-> res.log[Max(wrote(l))].ret] @@ stored
              /\ call' = [fn |-> "get_distance_matrix",
                          morphologies |-> morphologies, macro |-> macro,
                          signature |-> signature, before |-> World,
                          raised |-> res.raised, ret |-> res.matrix,
                          reads |-> res.reads, log |-> res.log]
    /\ ops' = ops + 1
    /\ UNCHANGED <<utilVars, trajectory, workers, cache_dir, CACHE_ENABLED>>

\* a cache file loses its tail, or is left empty by a write that never
\* finished (a crash while dumping, a full disk)
CorruptCacheEntry ==
    /\ op = "sim"
    /\ ops < MaxOps
    /\ cache_dir
    /\ \E cache_key \in CacheKeys \ {NoKey}, signature \in Signatures :
          LET loc == cache_location(cache_key, signature)
          IN  /\ loc \in DOMAIN cache => CanLoad(cache[loc])
              /\ cache' = (loc :> IF loc \in DOMAIN cache
                                  THEN Truncated(cache[loc]) ELSE <<>>) @@ cache
              /\ stored' = Without(stored, loc)
    /\ ops' = ops + 1
    /\ UNCHANGED <<utilVars, trajectory, workers, cache_dir, CACHE_ENABLED, call>>

\* ./.cache/RAG is removed with all it holds, or created
RemoveCacheDir ==
    /\ op = "sim"
    /\ ops < MaxOps
    /\ cache_dir
    /\ cache_dir' = FALSE
    /\ cache' = <<>>
    /\ stored' = <<>>
    /\ ops' = ops + 1
    /\ UNCHANGED <<utilVars, trajectory, workers, CACHE_ENABLED, call>>

MakeCacheDir ==
    /\ op = "sim"
    /\ ops < MaxOps
    /\ ~cache_dir
    /\ cache_dir' = TRUE
    /\ ops' = ops + 1
    /\ UNCHANGED <<utilVars, trajectory, workers, cache, stored, CACHE_ENABLED, call>>

\* processing.similarity.CACHE_ENABLED = not CACHE_ENABLED
SetCacheEnabled ==
    /\ op = "sim"
    /\ ops < MaxOps
    /\ CACHE_ENABLED' = ~CACHE_ENABLED
    /\ ops' = ops + 1
    /\ UNCHANGED <<utilVars, trajectory, workers, cache, cache_dir, stored, call>>

Init ==
    /\ image = <<>>
    /\ op = "sim"
    /\ args = NoArgs
    /\ ret = <<>>
    /\ cache = <<>>
    /\ cache_dir \in BOOLEAN
    /\ CACHE_ENABLED = TRUE
    /\ stored = <<>>
    /\ call = NoCall
    /\ ops = 0
    /\ workers = <<>>
    /\ trajectory = NoTrajectory

Next ==
    \/ GetRag
    \/ GetDistanceMatrix
    \/ CorruptCacheEntry
    \/ RemoveCacheDir
    \/ MakeCacheDir
    \/ SetCacheEnabled

Spec == Init /\ [][Next]_vars

----------------------------------------------------------------------------
(* get_rag run by several workers that share ./.cache/RAG, one call each,  *)
(* statement by statement.  A worker computes cells of the matrix: it      *)
(* calls get_rag on the image of a file with the cache key of that file.   *)

Workers == 1..MaxWorkers

Idle == [pc |-> "idle", file |-> File("", "", "", ""), signature |-> "",
         rag |-> NoRag, raised |-> "none", ret |-> NoRag]

WorkerLocation(w) ==
    cache_location(get_cache_key(workers[w].file), workers[w].signature)

\* get_rag(rgb2gray(io.imread(file)), signature, get_cache_key(file))
Call(w) ==
    /\ workers[w].pc = "idle"
    /\ \E file \in Files, signature \in Signatures :
          workers' = [workers EXCEPT ![w] =
              [Idle EXCEPT !.pc = "try", !.file = file,
                           !.signature = signature]]
    /\ UNCHANGED <<utilVars, trajectory, cache, cache_dir, CACHE_ENABLED, stored, call, ops>>

\* lines 149-156: open(cache_location, 'rb'), or raise IOError
TryCache(w) ==
    /\ workers[w].pc = "try"
    /\ workers' = [workers EXCEPT ![w].pc =
          IF /\ CACHE_ENABLED
             /\ Truthy(get_cache_key(workers[w].file))
             /\ cache_dir
             /\ WorkerLocation(w) \in DOMAIN cache
          THEN "load" ELSE "build"]
    /\ UNCHANGED <<utilVars, trajectory, cache, cache_dir, CACHE_ENABLED, stored, call, ops>>

\* line 154: return pickle.load(...) of what the file holds now
Load(w) ==
    /\ workers[w].pc = "load"
    /\ workers' = [workers EXCEPT ![w] =
          IF CanLoad(cache[WorkerLocation(w)])
          THEN [@ EXCEPT !.pc = "done",
                         !.ret = pickle_loads(cache[WorkerLocation(w)])]
          ELSE [@ EXCEPT !.pc = "done", !.raised = "UnpicklingError"]]
    /\ UNCHANGED <<utilVars, trajectory, cache, cache_dir, CACHE_ENABLED, stored, call, ops>>

\* lines 158-162: except IOError: rag = generate_region_adjacency_graph(...)
Build(w) ==
    /\ workers[w].pc = "build"
    /\ \E rag \in {generate_region_adjacency_graph(
                        imread_gray(workers[w].file), workers[w].signature)} :
          workers' = [workers EXCEPT ![w] =
              IF Truthy(get_cache_key(workers[w].file))
              THEN [@ EXCEPT !.pc = "open", !.rag = rag]
              ELSE [@ EXCEPT !.pc = "done", !.rag = rag, !.ret = rag]]
    /\ UNCHANGED <<utilVars, trajectory, cache, cache_dir, CACHE_ENABLED, stored, call, ops>>

\* line 167: open(cache_location, "wb") creates the file or empties it
OpenForWrite(w) ==
    /\ workers[w].pc = "open"
    /\ IF cache_dir
       THEN /\ cache' = (WorkerLocation(w) :> <<>>) @@ cache
            /\ workers' = [workers EXCEPT ![w].pc = "dump"]
       ELSE /\ cache' = cache
            /\ workers' = [workers EXCEPT ![w].pc = "done",
                                          ![w].raised = "FileNotFoundError"]
    /\ UNCHANGED <<utilVars, trajectory, cache_dir, CACHE_ENABLED, stored, call, ops>>

\* lines 167-170: pickle.dump(rag, file); return rag
Dump(w) ==
    /\ workers[w].pc = "dump"
    /\ cache' = (WorkerLocation(w) :> pickle_dumps(workers[w].rag)) @@ cache
    /\ workers' = [workers EXCEPT ![w].pc = "done",
                                  ![w].ret = workers[w].rag]
    /\ UNCHANGED <<utilVars, trajectory, cache_dir, CACHE_ENABLED, stored, call, ops>>

InitWorkers ==
    /\ image = <<>>
    /\ op = "workers"
    /\ args = NoArgs
    /\ ret = <<>>
    /\ cache = <<>>
    /\ cache_dir \in BOOLEAN
    /\ CACHE_ENABLED = TRUE
    /\ stored = <<>>
    /\ call = NoCall
    /\ ops = 0
    /\ workers = [w \in Workers |-> Idle]
    /\ trajectory = NoTrajectory

NextWorkers ==
    \E w \in Workers :
        \/ Call(w)
        \/ TryCache(w)
        \/ Load(w)
        \/ Build(w)
        \/ OpenForWrite(w)
        \/ Dump(w)

SpecWorkers == InitWorkers /\ [][NextWorkers]_vars

----------------------------------------------------------------------------
(* The calls of Trajectory.cache_morphologies on one trajectory, whose     *)
(* data directory starts empty.  An image is given flat, as one row.       *)

ImageSize == ImageRows * ImageCols

\* a flat image of n pixels, dark (0) on the pixels of S and MaxGrey elsewhere
FlatImage(n, S) == <<[i \in 1..n |-> IF i \in S THEN 0 ELSE MaxGrey]>>

TrajImages ==
    { FlatImage(ImageSize, {1}),
      FlatImage(ImageSize, {1, 2}),
      FlatImage(2 * ImageSize, {2 * ImageSize}),
      FlatImage(ImageSize - 1, {1}) }

TimestepArgs ==
    {Num(n) : n \in 0..MaxTimestep} \cup {Str(Format03(n)) : n \in 0..MaxTimestep}

TimestepLists ==
    {None} \cup {List(l) : l \in ListsUpTo(TimestepArgs, MaxBatch)}

CacheMorphologies ==
    /\ op = "trajectory"
    /\ ops < MaxOps
    /\ ops' = ops + 1
    /\ \E images \in ListsUpTo(TrajImages, MaxBatch),
          timesteps \in TimestepLists,
          with_components, replace \in BOOLEAN :
          \E res \in {cache_morphologies(trajectory, images, timesteps,
                                         with_components, replace)} :
              /\ trajectory' = res.traj
              /\ call' = [fn               |-> "cache_morphologies",
                          images           |-> images,
                          timesteps        |-> timesteps,
                          cache_components |-> with_components,
                          replace          |-> replace,
                          before           |-> trajectory,
                          raised           |-> res.raised]
    /\ UNCHANGED <<utilVars, cache, cache_dir, CACHE_ENABLED, stored, workers>>

InitTrajectory ==
    /\ image = <<>>
    /\ op = "trajectory"
    /\ args = NoArgs
    /\ ret = <<>>
    /\ cache = <<>>
    /\ cache_dir = TRUE
    /\ CACHE_ENABLED = TRUE
    /\ stored = <<>>
    /\ call = NoCall
    /\ ops = 0
    /\ workers = <<>>
    /\ trajectory = NoTrajectory

NextTrajectory == CacheMorphologies

SpecTrajectory == InitTrajectory /\ [][NextTrajectory]_vars

----------------------------------------------------------------------------
(* Properties of similarity.py *)

IsGetRag == call.fn = "get_rag"
IsMatrix == call.fn = "get_distance_matrix"

CallLocation == cache_location(call.cache_key, call.signature)

\* C1: with macro = "BFS" the matrix get_distance_matrix returns over a list
\* against itself has a zero diagonal and is symmetric, whether the RAGs
\* come from the cache or are rebuilt.
C1_ZeroDiagonalSymmetric ==
    (IsMatrix /\ call.macro = "BFS" /\ call.raised = "none") =>
        /\ \A i \in 1..Len(call.ret) : call.ret[i][i] = Zero
        /\ \A i, j \in 1..Len(call.ret) : call.ret[i][j] = call.ret[j][i]

\* a returned 2 x 2 matrix with a non-zero distance, one RAG of the run
\* loaded from the cache and another rebuilt
C1_Witness ==
    /\ IsMatrix
    /\ call.macro = "BFS"
    /\ call.raised = "none"
    /\ Len(call.ret) = 2
    /\ call.ret[1][2] # Zero
    /\ \E i, j \in 1..Len(call.log) : call.log[i].built /\ ~call.log[j].built

\* C2: whatever calls came before, a get_rag call that returns gives the RAG
\* generate_region_adjacency_graph builds from the image of that call.
C2_ReturnsRagOfItsImage ==
    (IsGetRag /\ call.raised = "none") =>
        call.ret = generate_region_adjacency_graph(call.image, call.signature)

\* C3: a cache entry that cannot be loaded is a cache miss: get_rag does
\* not fail, it rebuilds the RAG from the image and returns it.
C3_CorruptEntryIsMiss ==
    (/\ IsGetRag
     /\ call.before.CACHE_ENABLED
     /\ Truthy(call.cache_key)
     /\ CallLocation \in DOMAIN call.before.cache
     /\ ~CanLoad(call.before.cache[CallLocation])) =>
        /\ call.raised = "none"
        /\ call.ret = generate_region_adjacency_graph(call.image,
                                                      call.signature)

\* C4: a cache entry that cannot be written (the cache directory is
\* missing) does not abort the computation: get_rag returns the freshly
\* built RAG and get_distance_matrix completes.
C4_WriteFailureNotFatal ==
    /\ (IsGetRag /\ ~call.before.cache_dir) =>
           /\ call.raised = "none"
           /\ call.ret = generate_region_adjacency_graph(call.image,
                                                         call.signature)
    /\ (IsMatrix /\ ~call.before.cache_dir) => call.raised = "none"

\* C5: once get_rag has stored a RAG under (cache_key, signature), a later
\* get_rag with that cache_key and signature and caching enabled returns a
\* RAG with the node labels, node weights and edge set of the stored one.
C5_CacheRoundTrip ==
    (/\ IsGetRag
     /\ call.before.CACHE_ENABLED
     /\ Truthy(call.cache_key)
     /\ CallLocation \in DOMAIN call.stored_before) =>
        /\ call.raised = "none"
        /\ call.ret.nodes = call.stored_before[CallLocation].nodes
        /\ \A l \in call.ret.nodes :
              call.ret.weight[l] = call.stored_before[CallLocation].weight[l]
        /\ call.ret.edges = call.stored_before[CallLocation].edges

\* the stored RAG comes back although the call passes another image
C5_Witness ==
    /\ IsGetRag
    /\ call.before.CACHE_ENABLED
    /\ Truthy(call.cache_key)
    /\ CallLocation \in DOMAIN call.stored_before
    /\ call.raised = "none"
    /\ ~call.built
    /\ call.ret = call.stored_before[CallLocation]
    /\ call.ret.nodes # {}
    /\ call.ret # generate_region_adjacency_graph(call.image, call.signature)

\* C20: with caching enabled, in one get_distance_matrix run the RAG of
\* each (cache_key, signature) is built at most once: once a get_rag for a
\* key has returned, every later get_rag for that key in the run is served
\* from the cache without building the RAG.
C20_BuiltAtMostOncePerKey ==
    (IsMatrix /\ call.before.CACHE_ENABLED) =>
        \A i, j \in 1..Len(call.log) :
            (/\ i < j
             /\ call.log[i].cache_key = call.log[j].cache_key
             /\ call.log[i].raised = "none") =>
                /\ ~call.log[j].built
                /\ call.log[j].raised = "none"

\* a run over two files with different keys that builds exactly two RAGs
\* and serves the other six get_rag calls from the cache
C20_Witness ==
    /\ IsMatrix
    /\ call.before.CACHE_ENABLED
    /\ call.macro = "BFS"
    /\ call.raised = "none"
    /\ Len(call.log) = 8
    /\ Cardinality({i \in 1..Len(call.log) : call.log[i].built}) = 2
    /\ Cardinality({call.log[i].cache_key : i \in 1..Len(call.log)}) = 2

\* C21: the cache location is unique per morphology and signature: in a
\* get_distance_matrix run two different files (different trajectory
\* directory, stem, extension or source directory) never get the same
\* location get_cache_key(file) + "_" + signature, and neither does one
\* file under two different signature names.
C21_CacheLocationUnique ==
    IsMatrix =>
        \A i, j \in 1..Len(call.morphologies) :
            \A s1, s2 \in Signatures :
                <<call.morphologies[i], s1>> # <<call.morphologies[j], s2>> =>
                    cache_location(get_cache_key(call.morphologies[i]), s1) #
                        cache_location(get_cache_key(call.morphologies[j]), s2)

\* C22: when CACHE_ENABLED is false get_rag neither reads nor writes the
\* cache: the call leaves the entries and their contents as they were.
C22_DisabledCacheUntouched ==
    [][(GetRag /\ ~CACHE_ENABLED) => cache' = cache]_vars

\* C14: when macro is not a recognized mode (anything but "BFS"),
\* get_distance_matrix fails with UnknownMacroMethod before any image is
\* read, never after cells were filled and never with a non-numeric result.
C14_UnknownMacroFailsFast ==
    (IsMatrix /\ call.macro # "BFS") =>
        /\ call.raised = "UnknownMacroMethod"
        /\ call.reads = 0

----------------------------------------------------------------------------
(* Properties of Trajectory.cache_morphologies *)

IsCacheMorphologies == call.fn = "cache_morphologies" /\ call.raised = "none"

\* the (image, timestep) pairs the call went through
GivenPairs ==
    zip(call.images,
        IF is_None(call.timesteps) THEN range(Len(call.images))
        ELSE call.timesteps.list)

\* the pairs of the call that name the timestep directory n
GivenFor(n) ==
    {k \in 1..Len(GivenPairs) : Format03(int(GivenPairs[k][2])) = n}

\* the timestep directories the trajectory held when the call started
PresentBefore ==
    {call.before.timesteps[i].str : i \in 1..Len(call.before.timesteps)}

\* what a timestep directory holds once img is cached in it
CachedImage(img) == <<reshape_image(img).ret>>
CachedComponents(img) ==
    <<extract_components(reshape_image(img).ret, TRUE, 1, FALSE)>>

\* C23: a call of cache_morphologies with replace = False leaves the image
\* and the components of every timestep the trajectory already held as they
\* were and only adds the timesteps it names; with replace = True every
\* timestep already held that the call names ends with the image the call
\* gave for it, and with the components of that image when components are
\* cached.
C23_ReplaceSemantics ==
    IsCacheMorphologies =>
        IF ~call.replace
        THEN /\ \A n \in PresentBefore :
                    trajectory.disk[n] = call.before.disk[n]
             /\ \A n \in DOMAIN trajectory.disk :
                    n \in DOMAIN call.before.disk \/ GivenFor(n) # {}
        ELSE \A n \in PresentBefore :
                 GivenFor(n) # {} =>
                     LET img == GivenPairs[Max(GivenFor(n))][1]
                     IN  /\ trajectory.disk[n].image = CachedImage(img)
                         /\ call.cache_components =>
                                trajectory.disk[n].components =
                                    CachedComponents(img)

----------------------------------------------------------------------------
(* Properties of the vector steps *)

\* C17: generate_padded_vectors returns two vectors whose length is the
\* greater of the two input lengths, each its input followed only by
\* zeros, so that the norm of their difference is defined; for [1,2] and
\* [1,2,3,4] it returns [1,2,0,0] and [1,2,3,4].
C17_PaddedToCommonLength ==
    (op = "generate_padded_vectors") =>
        LET given  == args.vector_pair
            padded == ret.padded_vectors
            n      == Max({Len(given[1]), Len(given[2])})
        IN  /\ Len(padded) = 2
            /\ \A k \in 1..2 :
                  /\ Len(padded[k]) = n
                  /\ SubSeq(padded[k], 1, Len(given[k])) = given[k]
                  /\ \A i \in (Len(given[k]) + 1)..n : padded[k][i] = Zero
            /\ FloatIsFinite(ret.distance)
            /\ given = <<Vec(<<1, 2>>), Vec(<<1, 2, 3, 4>>)>> =>
                   padded = <<Vec(<<1, 2, 0, 0>>), Vec(<<1, 2, 3, 4>>)>>

\* the pair [1,2] and [1,2,3,4], at distance 3 + 4
C17_Witness ==
    /\ op = "generate_padded_vectors"
    /\ args.vector_pair = <<Vec(<<1, 2>>), Vec(<<1, 2, 3, 4>>)>>
    /\ ret.padded_vectors[1] = Vec(<<1, 2, 0, 0>>)
    /\ ret.distance = <<7, 1>>

\* the nodes of rag joined to node u by a path
RECURSIVE Reach(_, _)
Reach(rag, S) ==
    LET T == S \cup {v \in rag.nodes : \E u \in S : {u, v} \in rag.edges}
    IN  IF T = S THEN S ELSE Reach(rag, T)

\* order lists the nodes root reaches breadth first, neighbours ascending:
\* each node but the root comes after the first listed node it is joined
\* to (its parent), nodes are listed by parent, then by label
IsBreadthFirstOrder(rag, order) ==
    LET pos(v)    == CHOOSE i \in 1..Len(order) : order[i] = v
        parent(v) == Min({pos(u) : u \in {x \in Neighbours(rag, v) :
                                    \E i \in 1..Len(order) : order[i] = x}})
    IN  /\ order[1] = Min(rag.nodes)
        /\ \A i \in 2..Len(order) : parent(order[i]) < i
        /\ \A i, j \in 2..Len(order) :
              i < j =>
                  \/ parent(order[i]) < parent(order[j])
                  \/ /\ parent(order[i]) = parent(order[j])
                     /\ order[i] < order[j]

\* the order of the nodes a vector of distinct weights was emitted in
EmittedOrder ==
    [i \in 1..Len(ret) |->
        CHOOSE l \in args.rag.nodes : args.rag.weight[l] = ret[i]]

DistinctWeights ==
    \A l, m \in args.rag.nodes :
        l # m => args.rag.weight[l] # args.rag.weight[m]

\* C18: generate_bfs_vector emits the weights breadth first from the node
\* of smallest label, neighbours in ascending label order, then the nodes
\* the root does not reach in ascending label order: on every graph,
\* connected or not, each node's weight appears exactly once and the
\* length is the node count.
C18_BfsVectorCoversEveryNode ==
    (op = "generate_bfs_vector") =>
        LET rag == args.rag
        IN  /\ Len(ret) = Cardinality(rag.nodes)
            /\ \A i \in 1..Len(ret) : \E l \in rag.nodes : rag.weight[l] = ret[i]
            /\ (DistinctWeights /\ rag.nodes # {}) =>
                   LET reached == Reach(rag, {Min(rag.nodes)})
                       k       == Cardinality(reached)
                   IN  /\ {EmittedOrder[i] : i \in 1..Len(ret)} = rag.nodes
                       /\ {EmittedOrder[i] : i \in 1..k} = reached
                       /\ IsBreadthFirstOrder(rag, SubSeq(EmittedOrder, 1, k))
                       /\ \A i, j \in (k + 1)..Len(ret) :
                              i < j => EmittedOrder[i] < EmittedOrder[j]

\* a graph in two pieces whose breadth-first order is not the label order:
\* 1 - 3 - 2 and the lone node 4
C18_Witness ==
    /\ op = "generate_bfs_vector"
    /\ args.rag.nodes = 1..4
    /\ args.rag.edges = {{1, 3}, {2, 3}}
    /\ DistinctWeights
    /\ EmittedOrder = <<1, 3, 2, 4>>

----------------------------------------------------------------------------
(* Properties of get_rag under several workers *)

\* the outcomes of the workers' calls made one after the other in the
\* given order, each as a whole, from the empty cache
RECURSIVE SequentialRun(_, _, _, _)
SequentialRun(w, order, i, outcomes) ==
    IF i > Len(order) THEN outcomes
    ELSE CHOOSE end \in
             {SequentialRun([w EXCEPT !.cache = r.cache], order, i + 1,
                            (order[i] :> [raised |-> r.raised, ret |-> r.ret])
                                @@ outcomes) :
                 r \in {get_rag(w, imread_gray(workers[order[i]].file),
                                workers[order[i]].signature,
                                get_cache_key(workers[order[i]].file))}} : TRUE

Orders ==
    {order \in [1..MaxWorkers -> Workers] :
        \A i, j \in 1..MaxWorkers : i # j => order[i] # order[j]}

AllDone == \A w \in Workers : workers[w].pc = "done"

\* C19: when several workers share the RAG cache, every interleaving of
\* their get_rag calls gives each worker the outcome of some sequential
\* run: no worker fails or gets another RAG because it read an entry another
\* worker was still writing.
C19_InterleavingsMatchSequential ==
    (op = "workers" /\ AllDone) =>
        \E order \in Orders :
            LET outcomes == SequentialRun(
                    [cache |-> <<>>, cache_dir |-> cache_dir,
                     CACHE_ENABLED |-> CACHE_ENABLED], order, 1, <<>>)
            IN  \A w \in Workers :
                    /\ workers[w].raised = outcomes[w].raised
                    /\ workers[w].raised = "none" =>
                           workers[w].ret = outcomes[w].ret

----------------------------------------------------------------------------
(* Properties of extract_components *)

Ones(a) == Cardinality({p \in Pixels(a) : a[p[1]][p[2]] = 1})

RegionMask(img, region) ==
    [r \in 1..Rows(img) |-> [c \in 1..Cols(img) |->
        IF <<r, c>> \in region THEN 1 ELSE 0]]

\* the array extract_components labels: the input, thresholded on request
Labelled == IF args.binarize THEN binarize(image, 1) ELSE image

\* the connected regions of pixels whose value is not the background value
NonBackgroundRegions ==
    {Flood(Labelled, {p}, {p}) :
        p \in {q \in Pixels(Labelled) :
                  Labelled[q[1]][q[2]] # args.background}}

\* C6: with a concrete background value (background >= 0) extract_components
\* returns exactly one component per connected region of non-background
\* pixels and none for the background, also when no pixel is background.
C6_OneComponentPerRegion ==
    (op = "extract_components" /\ args.background >= 0) =>
        /\ Len(ret) = Cardinality(NonBackgroundRegions)
        /\ {ret[i] : i \in 1..Len(ret)} =
               {RegionMask(Labelled, reg) : reg \in NonBackgroundRegions}

\* the images whose foreground is two squares of side 3 that do not touch,
\* not even at a corner
SeparatedTwoSquareImages ==
    {SquaresImage(6, 7, {k1, k2}) :
        <<k1, k2>> \in {kk \in SquareCorners \X SquareCorners :
                            ~SquaresTouch(kk[1], kk[2])}}

TwoComponentsOfNine ==
    /\ Len(ret) = 2
    /\ \A i \in 1..Len(ret) : Ones(ret[i]) = 9

\* C7 as stated: on two disjoint 3x3 squares extract_components returns
\* exactly 2 components of 9 pixels each, whatever its other arguments.
C7_TwoSquaresAnyBackground ==
    (op = "extract_components" /\ image \in SeparatedTwoSquareImages) =>
        TwoComponentsOfNine

\* C7 (amended): with background = 0, on two 3x3 squares that do not touch,
\* extract_components returns exactly 2 components, each with 9 pixels set
\* to 1.
C7_TwoSquaresBackgroundZero ==
    (/\ op = "extract_components"
     /\ image \in SeparatedTwoSquareImages
     /\ args.background = 0) =>
        TwoComponentsOfNine

C7_Witness ==
    /\ op = "extract_components"
    /\ image \in SeparatedTwoSquareImages
    /\ args.background = 0
    /\ ~args.allow_blank_images
    /\ Len(ret) = 2

\* C8: on an image with no foreground pixel extract_components returns no
\* component when allow_blank_images is false and exactly one component,
\* the whole blank image, when it is true.
C8_BlankFlagDecides ==
    (op = "extract_components" /\ AllZero(image)) =>
        IF args.allow_blank_images
        THEN Len(ret) = 1 /\ Rows(ret[1]) = Rows(image)
                          /\ Cols(ret[1]) = Cols(image)
        ELSE Len(ret) = 0

----------------------------------------------------------------------------
(* Properties of crop_image *)

Above(tol) == {p \in Pixels(image) : image[p[1]][p[2]] > tol}

\* the sub-array of img from row r1 to r2 and column c1 to c2, inclusive
SubImage(img, r1, r2, c1, c2) ==
    [i \in 1..(r2 - r1 + 1) |-> [j \in 1..(c2 - c1 + 1) |->
        img[r1 + i - 1][c1 + j - 1]]]

BoundingBox(tol) ==
    SubImage(image,
             Min({p[1] : p \in Above(tol)}), Max({p[1] : p \in Above(tol)}),
             Min({p[2] : p \in Above(tol)}), Max({p[2] : p \in Above(tol)}))

\* C9: when some pixel exceeds tolerance, crop_image returns the sub-image
\* spanning the smallest axis-aligned bounding box of the pixels above
\* tolerance, rows and columns inside the box without such a pixel included.
C9_CropIsBoundingBox ==
    (op = "crop_image" /\ Above(args.tolerance) # {}) =>
        ret = BoundingBox(args.tolerance)

----------------------------------------------------------------------------
(* Properties of the signature functions *)

\* the components apply_to_image measures: extract_components(image)
DefaultComponents == extract_components(image, TRUE, -1, FALSE)

BoxRows(component) ==
    LET rs == {p[1] : p \in Foreground(component)}
    IN  Max(rs) - Min(rs) + 1
BoxCols(component) ==
    LET cs == {p[2] : p \in Foreground(component)}
    IN  Max(cs) - Min(cs) + 1

\* C11: shape_ratio_sig applied to a cropped component returns the width of
\* its bounding box (columns) divided by its height (rows), taken from the
\* cropped array and not from the image the component was cut from.
C11_ShapeRatioWidthOverHeight ==
    (op = "apply_to_image" /\ args.func = "shape_ratio_sig" /\ args.crop) =>
        /\ Len(ret) = Len(DefaultComponents)
        /\ \A i \in 1..Len(ret) :
              ret[i] = FloatDiv(BoxCols(DefaultComponents[i]),
                                BoxRows(DefaultComponents[i]))

ClampedSigs == {"perimeter_sig", "area_sig", "length_sig", "height_sig"}

\* C12: for every component and every positive maximum, perimeter_sig,
\* area_sig, length_sig and height_sig return a value of at most 1.0, also
\* when the bounding box exceeds the maximum.
C12_NormalizedSigsAtMostOne ==
    (op \in ClampedSigs /\ ~AllZero(image)) =>
        /\ ret.raised = "none"
        /\ IF op = "perimeter_sig" THEN SurdLeqOne(ret.ret)
                                   ELSE FloatLeqOne(ret.ret)

\* a with its columns reversed, and with its rows reversed
MirrorColumns(a) ==
    [r \in 1..Rows(a) |-> [c \in 1..Cols(a) |-> a[r][Cols(a) - c + 1]]]
MirrorRows(a) ==
    [r \in 1..Rows(a) |-> [c \in 1..Cols(a) |-> a[Rows(a) - r + 1][c]]]

\* C13: on a non-empty component y_sym_sig (x_sym_sig) returns a fraction
\* between 0 and 1 that is 1 exactly when the cropped component equals its
\* mirror image about the vertical (horizontal) midline.
C13_SymmetryIsFraction ==
    (op \in {"y_sym_sig", "x_sym_sig"} /\ ~AllZero(image)) =>
        /\ ret.raised = "none"
        /\ ret.ret[1] >= 0
        /\ FloatLeqOne(ret.ret)
        /\ ret.ret = <<1, 1>> <=>
               BoundingBox(0) = IF op = "y_sym_sig"
                                THEN MirrorColumns(BoundingBox(0))
                                ELSE MirrorRows(BoundingBox(0))

RatioSigs == {"pixel_ratio_sig", "perimeter_area_ratio_sig",
              "rect_area_ratio_sig"}

\* C15: a ratio signature called on a component with no foreground pixel,
\* the empty result of crop_image included, fails with DegenerateComponent
\* and never returns nan or infinity.
C15_DegenerateComponentFails ==
    (op \in RatioSigs /\ AllZero(image)) =>
        ret.raised = "DegenerateComponent"

\* the names apply_signatures was given, as a list
GivenSigFuncs ==
    IF isinstance_str(args.sig_funcs) THEN <<args.sig_funcs.str>>
    ELSE args.sig_funcs.list

\* some function named returns a zero-length result on the image
SomeEmptySig ==
    \E i \in 1..Len(GivenSigFuncs) :
        /\ GivenSigFuncs[i] = "crop_image"
        /\ AllZero(image)

\* C16: with allow_empty_sig = False apply_signatures fails exactly when
\* some signature function returns a zero-length result; otherwise, single
\* scalars included, and always with allow_empty_sig = True, it succeeds
\* and returns one signature per function.
C16_FailsExactlyOnEmptySig ==
    (op = "apply_signatures") =>
        IF ~args.allow_empty_sig /\ SomeEmptySig
        THEN ret.raised # "none"
        ELSE /\ ret.raised = "none"
             /\ Len(ret.ret) = Len(GivenSigFuncs)

----------------------------------------------------------------------------
(* Properties of get_inscribed_rect_area *)

\* the rectangles <<top, left, bottom, right>> (0-based, inclusive) of img
\* made only of foreground pixels
ForegroundRects(img) ==
    {q \in (0..Rows(img) - 1) \X (0..Cols(img) - 1)
             \X (0..Rows(img) - 1) \X (0..Cols(img) - 1) :
        /\ q[1] <= q[3]
        /\ q[2] <= q[4]
        /\ \A r \in q[1]..q[3], c \in q[2]..q[4] : At(img, r, c) # 0}

RectArea(q) == (q[3] - q[1] + 1) * (q[4] - q[2] + 1)

\* C10: on a binary component with a foreground pixel the returned area is
\* the maximum area of an all-foreground axis-aligned rectangle, and the
\* returned coordinates delimit an all-foreground rectangle of that area;
\* on the 4x4 all-foreground square: area 16, the whole square.
C10_InscribedRectIsMaximal ==
    (op = "get_inscribed_rect_area" /\ IsBinary(image) /\ ~AllZero(image)) =>
        /\ ret[1] = Max({RectArea(q) : q \in ForegroundRects(image)})
        /\ Len(ret[2]) = 1
        /\ ret[2][1] \in ForegroundRects(image)
        /\ RectArea(ret[2][1]) = ret[1]
        /\ image = FullSquare4 => ret = <<16, << <<0, 0, 3, 3>> >> >>

\* a component that is not a rectangle: the best rectangle leaves pixels out
C10_Witness ==
    /\ op = "get_inscribed_rect_area"
    /\ IsBinary(image)
    /\ Ones(image) = 3
    /\ Rows(image) = 2
    /\ ret[1] = 2

============================================================================
